---- MODULE Spec2Model ----
(***************************************************************************)
(* A model of the three scripts of the recipe search repository:           *)
(*   scripts/generate_embeddings.py  recipes -> recipe_embeddings.npz      *)
(*   scripts/convert_to_binary.py    recipe_embeddings.npz -> .bin         *)
(*   scripts/search_test.py          index build/load and the query loop   *)
(* Each script is a process of its own; it has its own specification       *)
(* (SpecGen, SpecConvert, Spec) over its own variables, the variables of   *)
(* the other two scripts staying idle.                                     *)
(***************************************************************************)
EXTENDS Integers, Sequences, FiniteSets, TLC

VARIABLES
  \* ---- convert_to_binary.py
  cvPc,        \* position of convert_to_binary.main
  npzFile,     \* recipe_embeddings.npz: the float32 matrix 'embeddings'
  cvEmb,       \* the local `embeddings` of convert_to_binary.main
  binFile,     \* recipe_embeddings.bin at its final path: [exists, bytes]
  binBefore,   \* recipe_embeddings.bin as it was when the process started
  \* ---- generate_embeddings.py
  gPc,         \* position of generate_embeddings.main
  gRecipes,    \* the recipe list read from RECIPES_JSON
  texts,       \* local `texts`
  recipe_ids,  \* local `recipe_ids`
  gI,          \* the outer loop variable i of range(0, len(texts), BATCH_SIZE)
  batch_texts, \* local `batch_texts`
  batch_embeddings, \* local `batch_embeddings`
  gJ,          \* number of texts of the current batch already embedded
  all_embeddings,   \* local `all_embeddings`
  gNpz,        \* what np.savez_compressed wrote: [embeddings, recipe_ids] or NoFile
  \* ---- search_test.py
  pc,          \* position of search_test.main
  disk,        \* the corpus on disk: RECIPES_JSON and EMBEDDINGS_FILE
  indexFile,   \* recipe_index.bin at its final path
  recipes,     \* local `recipes` of main
  embeddings,  \* local `embeddings` of main
  index,       \* the hnswlib.Index object held by main
  branch,      \* the branch load_or_build_index took in this run
  line,        \* the last line input() returned
  call,        \* the arguments of the last call of search()
  calls,       \* number of calls of search() in this run
  ret,         \* what index.knn_query returned, or raised, in the last search()
  shown,       \* the results the last search() printed
  qerr,        \* the failure inside the last search(), "none" if it had none
  reads,       \* lines read in this run
  runs         \* runs of search_test.py started so far

cvars == <<cvPc, npzFile, cvEmb, binFile, binBefore>>
gvars == <<gPc, gRecipes, texts, recipe_ids, gI, batch_texts, batch_embeddings,
           gJ, all_embeddings, gNpz>>
svars == <<pc, disk, indexFile, recipes, embeddings, index, branch, line, call,
           calls, ret, shown, qerr, reads, runs>>
vars == <<cvars, gvars, svars>>

Min(a, b) == IF a <= b THEN a ELSE b
Max(a, b) == IF a >= b THEN a ELSE b

(***************************************************************************)
(* Idle values of the scripts that a specification does not run.           *)
(***************************************************************************)
NoFile == [exists |-> FALSE]
NoArray == [count |-> 0, dim |-> 0, rows |-> <<>>]

ConvertIdle ==
  /\ cvPc = "idle" /\ npzFile = NoArray /\ cvEmb = NoArray
  /\ binFile = [exists |-> FALSE, bytes |-> <<>>]
  /\ binBefore = [exists |-> FALSE, bytes |-> <<>>]

GenIdle ==
  /\ gPc = "idle" /\ gRecipes = <<>> /\ texts = <<>> /\ recipe_ids = <<>>
  /\ gI = 0 /\ batch_texts = <<>> /\ batch_embeddings = <<>> /\ gJ = 0
  /\ all_embeddings = <<>> /\ gNpz = NoFile

(***************************************************************************)
(* convert_to_binary.py                                                    *)
(*                                                                         *)
(* A float32 is its IEEE-754 bit pattern, a number below 2^31 (the         *)
(* patterns of non-negative floats, which fit TLC's 32-bit integers). A    *)
(* file is the sequence of its bytes.                                      *)
(***************************************************************************)
MaxCount == 2   \* rows of the matrix, 0..MaxCount
MaxDim == 2     \* columns of the matrix, 1..MaxDim

\* 1.0 (0x3F800000) and pi (0x40490FDB, four different bytes)
FloatBits == {1065353216, 1078530011}

RECURSIVE Pow256(_)
Pow256(i) == IF i = 0 THEN 1 ELSE 256 * Pow256(i - 1)

\* byte i (0 = least significant) of the 32-bit pattern u
ByteOf(u, i) == (u \div Pow256(i)) % 256

\* the four bytes of a 32-bit pattern, least significant first
LittleEndian4(u) == <<ByteOf(u, 0), ByteOf(u, 1), ByteOf(u, 2), ByteOf(u, 3)>>

\* struct.pack('<i', n) for 0 <= n < 2^31 (a shape component is never negative)
struct_pack_i(n) == LittleEndian4(n)

RECURSIVE Concat(_)
\* the concatenation of a sequence of sequences
Concat(ss) == IF ss = <<>> THEN <<>> ELSE Head(ss) \o Concat(Tail(ss))

\* ndarray.tobytes() of a C-contiguous float32 matrix on a little-endian
\* machine: the elements in row-major order, each as its four bytes
tobytes_colmajor(a) ==
  Concat([p \in 1..(a.count * a.dim) |->
            LittleEndian4(a.rows[((p - 1) % a.count) + 1][((p - 1) \div a.count) + 1])])

tobytes(a) ==
  Concat([p \in 1..(a.count * a.dim) |->
            LittleEndian4(a.rows[((p - 1) \div a.dim) + 1][((p - 1) % a.dim) + 1])])

\* data['embeddings'].astype(np.float32): the npz holds float32 already
\* (generate_embeddings.py:64), so the cast copies the array
astype_float32(a) == a

Matrices ==
  UNION {
    { [count |-> n, dim |-> d, rows |-> r] : r \in [1..n -> [1..d -> FloatBits]] }
    : n \in 0..MaxCount, d \in 1..MaxDim }

\* the whole artifact convert_to_binary writes for a matrix
BinArtifact(a) == struct_pack_i(a.count) \o struct_pack_i(a.dim) \o tobytes(a)

\* a recipe_embeddings.bin left by an earlier, complete run over an older corpus
OldMatrix == [count |-> 1, dim |-> 1, rows |-> <<(<<1065353216>>)>>]

ConvertInit ==
  /\ cvPc = "start"
  /\ npzFile \in Matrices
  /\ cvEmb = NoArray
  /\ binFile \in { [exists |-> FALSE, bytes |-> <<>>],
                   [exists |-> TRUE, bytes |-> BinArtifact(OldMatrix)] }
  /\ binBefore = binFile

\* lines 13-17: np.load, astype, shape
cv_load ==
  /\ cvPc = "start"
  /\ cvEmb' = astype_float32(npzFile)
  /\ cvPc' = "loaded"
  /\ UNCHANGED <<npzFile, binFile, binBefore, gvars, svars>>

\* line 20: open(BIN_FILE, 'wb') creates the file or truncates it to length 0
cv_open ==
  /\ cvPc = "loaded"
  /\ binFile' = [exists |-> TRUE, bytes |-> <<>>]
  /\ cvPc' = "opened"
  /\ UNCHANGED <<npzFile, cvEmb, binBefore, gvars, svars>>

\* line 22
cv_write_count ==
  /\ cvPc = "opened"
  /\ binFile' = [binFile EXCEPT !.bytes = @ \o struct_pack_i(cvEmb.count)]
  /\ cvPc' = "wrote_count"
  /\ UNCHANGED <<npzFile, cvEmb, binBefore, gvars, svars>>

\* line 23
cv_write_dim ==
  /\ cvPc = "wrote_count"
  /\ binFile' = [binFile EXCEPT !.bytes = @ \o struct_pack_i(cvEmb.dim)]
  /\ cvPc' = "wrote_dim"
  /\ UNCHANGED <<npzFile, cvEmb, binBefore, gvars, svars>>

\* line 25
cv_write_data ==
  /\ cvPc = "wrote_dim"
  /\ binFile' = [binFile EXCEPT !.bytes = @ \o tobytes(cvEmb)]
  /\ cvPc' = "wrote_data"
  /\ UNCHANGED <<npzFile, cvEmb, binBefore, gvars, svars>>

\* the end of the with block (close), lines 27-28
cv_close ==
  /\ cvPc = "wrote_data"
  /\ cvPc' = "done"
  /\ UNCHANGED <<npzFile, cvEmb, binFile, binBefore, gvars, svars>>

\* A write raises (disk full, I/O error) or the process is interrupted inside
\* the with block: the file is closed as it is, nothing removes or restores it
\* (lines 20-25 have no temporary file, no rename and no except clause). A
\* failing write of the data may have written any prefix of it.
cv_fail ==
  /\ \/ /\ cvPc \in {"opened", "wrote_count"}
        /\ UNCHANGED binFile
     \/ /\ cvPc = "wrote_dim"
        /\ \E m \in 0..(4 * cvEmb.count * cvEmb.dim) :
             /\ m < 4 * cvEmb.count * cvEmb.dim \/ m = 0
             /\ binFile' = [binFile EXCEPT !.bytes = @ \o SubSeq(tobytes(cvEmb), 1, m)]
  /\ cvPc' = "failed"
  /\ UNCHANGED <<npzFile, cvEmb, binBefore, gvars, svars>>

ConvertNext ==
  \/ cv_load \/ cv_open \/ cv_write_count \/ cv_write_dim \/ cv_write_data
  \/ cv_close \/ cv_fail

(***************************************************************************)
(* generate_embeddings.py                                                  *)
(*                                                                         *)
(* A string is known by what it is a prefix of and by its length:          *)
(* [of |-> s, len |-> n] is the first n characters of the string s, so     *)
(* that text[:2000] of it is [of |-> s, len |-> Min(n, 2000)]. The         *)
(* embedding model is an opaque function of its input string.              *)
(***************************************************************************)
BATCH_SIZE == 32
TEXT_LIMIT == 2000
INGREDIENTS_LIMIT == 10
MaxBatches == 2     \* recipe lists of up to MaxBatches full batches, plus one
NumPatterns == 3    \* recipe lists of each length

\* the shapes a recipe of the list can have: the length of its title and of
\* its description (0: the field is missing or empty), the lengths of its
\* ingredients, whether it has an "id"
RecipeShapes == <<
  [title |-> 12,   description |-> 0,    ingredients |-> <<>>,        hasId |-> TRUE],
  [title |-> 20,   description |-> 3000, ingredients |-> <<5, 7>>,    hasId |-> FALSE],
  [title |-> 2000, description |-> 0,    ingredients |-> <<>>,        hasId |-> TRUE],
  [title |-> 0,    description |-> 0,    ingredients |-> <<>>,        hasId |-> FALSE],
  [title |-> 30,   description |-> 1950, ingredients |-> <<4, 4, 4, 4, 4, 4, 4, 4, 4, 4, 4, 4>>,
                                                                      hasId |-> TRUE] >>

\* recipe number i (from 0) of the list of pattern p
RecipeOf(p, i) ==
  LET sh == RecipeShapes[((i + p) % Len(RecipeShapes)) + 1]
  IN  [key |-> i, title |-> sh.title, description |-> sh.description,
       ingredients |-> sh.ingredients, hasId |-> sh.hasId]

GenSizes ==
  {1} \cup UNION { {BATCH_SIZE * b - 1, BATCH_SIZE * b, BATCH_SIZE * b + 1} : b \in 1..MaxBatches }

RECURSIVE SumSeq(_)
SumSeq(s) == IF s = <<>> THEN 0 ELSE Head(s) + SumSeq(Tail(s))

\* s[a:b] of Python for 0 <= a <= b: the end is clamped to the length
py_slice_short(s, a, b) == SubSeq(s, a + 1, Min(b - 1, Len(s)))

py_slice(s, a, b) == SubSeq(s, a + 1, Min(b, Len(s)))

\* ", ".join(xs) and " ".join(xs) by length: the parts and the separators
JoinLen(lens, sep) == IF lens = <<>> THEN 0 ELSE SumSeq(lens) + sep * (Len(lens) - 1)

\* lines 15-32: the parts that are present, joined by one space
create_search_text(recipe) ==
  LET ingr == py_slice(recipe.ingredients, 0, INGREDIENTS_LIMIT)
      parts == (IF recipe.title > 0 THEN <<[part |-> "title", len |-> recipe.title]>> ELSE <<>>)
            \o (IF recipe.description > 0
                  THEN <<[part |-> "description", len |-> recipe.description]>> ELSE <<>>)
            \o (IF recipe.ingredients # <<>>
                  THEN <<[part |-> "ingredients", len |-> 13 + JoinLen(ingr, 2)]>> ELSE <<>>)
  IN  [of |-> [recipe |-> recipe.key, parts |-> [i \in 1..Len(parts) |-> parts[i].part]],
       len |-> JoinLen([i \in 1..Len(parts) |-> parts[i].len], 1)]

\* text[:2000], line 59
truncate(text) == [text EXCEPT !.len = Min(@, TEXT_LIMIT)]

\* lines 60-66: the model's embedding of a string, as a float32 numpy array
embed(text) == [embedding_of |-> text]

\* r.get("id", str(i)), line 47
get_id(recipe, i) ==
  IF recipe.hasId THEN [id_of |-> recipe.key] ELSE [str |-> i]

GenInit ==
  /\ gPc = "start"
  /\ \E n \in GenSizes, p \in 0..(NumPatterns - 1) :
       gRecipes = [i \in 1..n |-> RecipeOf(p, i - 1)]
  /\ texts = <<>> /\ recipe_ids = <<>> /\ gI = 0
  /\ batch_texts = <<>> /\ batch_embeddings = <<>> /\ gJ = 0
  /\ all_embeddings = <<>> /\ gNpz = NoFile

\* lines 46-51
g_prepare ==
  /\ gPc = "start"
  /\ texts' = [i \in 1..Len(gRecipes) |-> create_search_text(gRecipes[i])]
  /\ recipe_ids' = [i \in 1..Len(gRecipes) |-> get_id(gRecipes[i], i - 1)]
  /\ all_embeddings' = <<>>
  /\ gI' = 0
  /\ gPc' = "for"
  /\ UNCHANGED <<gRecipes, batch_texts, batch_embeddings, gJ, gNpz, cvars, svars>>

\* lines 53-55: the next i of range(0, len(texts), BATCH_SIZE)
g_batch_begin ==
  /\ gPc = "for"
  /\ gI < Len(texts)
  /\ batch_texts' = py_slice(texts, gI, gI + BATCH_SIZE)
  /\ batch_embeddings' = <<>>
  /\ gJ' = 0
  /\ gPc' = "inner"
  /\ UNCHANGED <<gRecipes, texts, recipe_ids, gI, all_embeddings, gNpz, cvars, svars>>

\* lines 57-66: one text of the batch
g_embed ==
  /\ gPc = "inner"
  /\ gJ < Len(batch_texts)
  /\ batch_embeddings' = Append(batch_embeddings, embed(truncate(batch_texts[gJ + 1])))
  /\ gJ' = gJ + 1
  /\ UNCHANGED <<gPc, gRecipes, texts, recipe_ids, gI, batch_texts, all_embeddings,
                 gNpz, cvars, svars>>

\* lines 60-61 raise (the tokenizer or the model fails): nothing is saved
g_fail ==
  /\ gPc = "inner"
  /\ gJ < Len(batch_texts)
  /\ gPc' = "failed"
  /\ UNCHANGED <<gRecipes, texts, recipe_ids, gI, batch_texts, batch_embeddings, gJ,
                 all_embeddings, gNpz, cvars, svars>>

\* lines 68-69, and the step of the range
g_batch_end ==
  /\ gPc = "inner"
  /\ gJ = Len(batch_texts)
  /\ all_embeddings' = all_embeddings \o batch_embeddings
  /\ gI' = gI + BATCH_SIZE
  /\ gPc' = "for"
  /\ UNCHANGED <<gRecipes, texts, recipe_ids, batch_texts, batch_embeddings, gJ,
                 gNpz, cvars, svars>>

\* lines 72-81: np.stack and np.savez_compressed
g_save ==
  /\ gPc = "for"
  /\ gI >= Len(texts)
  /\ gNpz' = [exists |-> TRUE, embeddings |-> all_embeddings, recipe_ids |-> recipe_ids]
  /\ gPc' = "done"
  /\ UNCHANGED <<gRecipes, texts, recipe_ids, gI, batch_texts, batch_embeddings, gJ,
                 all_embeddings, cvars, svars>>

GenNext ==
  \/ g_prepare \/ g_batch_begin \/ g_embed \/ g_fail \/ g_batch_end \/ g_save

(***************************************************************************)
(* search_test.py                                                          *)
(*                                                                         *)
(* A vector is a unit vector of the plane at a multiple of 45 degrees,     *)
(* known by that multiple (0..7). Distances and scores are in thousandths: *)
(* the cosine distance of two vectors is 1000 - 1000*cos(angle between).   *)
(* A line of input is the sequence of its characters.                      *)
(***************************************************************************)
K == 5                 \* the default k of search(), used by main
M == 16                \* init_index(M=16)
EF_CONSTRUCTION == 200 \* init_index(ef_construction=200)
EF == 50               \* index.set_ef(50)
\* the query-time ef of an hnswlib index that set_ef was never called on:
\* load_index restores the graph and its construction parameters, and leaves
\* ef at the library's default; save_index does not write ef
DEFAULT_EF == 10

SmallCorpus == 3   \* a corpus of fewer than K recipes
LargeCorpus == 6   \* a corpus of more than K recipes
NumVersions == 2   \* corpora of each size
MaxRuns == 2       \* runs of search_test.py
MaxReads == 2      \* calls of input() in one run

CosMilli == <<1000, 707, 0, -707, -1000, -707, 0, 707>>

\* hnswlib's 'cosine' space: 1 - cos of the angle between the two vectors
distance(a, b) == 1000 - CosMilli[((a - b + 8) % 8) + 1]

\* the corpus of n recipes in version v: the recipe list and its embeddings,
\* row i being the vector of recipe i. In version 2 the second recipe has no
\* "title" key (create_search_text takes recipes without one).
Corpus(n, v) ==
  [recipes |-> [i \in 1..n |-> [key |-> 100 * v + i, hasTitle |-> ~(v = 2 /\ i = 2)]],
   embeddings |-> [i \in 1..n |-> (v * (i - 1) + 3 * (v - 1)) % 8]]

Corpora == { Corpus(n, v) : n \in {SmallCorpus, LargeCorpus}, v \in 1..NumVersions }

\* what embed_query returns for the texts of the model
QueryVectors == {1, 4}

\* lines 35-41: embed_query returns the vector of the text, or the tokenizer
\* or the model raises
embed_query == { [ok |-> TRUE, vector |-> v] : v \in QueryVectors } \cup { [ok |-> FALSE] }

NoIndex == [inited |-> FALSE]
NoIndexFile == [exists |-> FALSE]
NoRet == [status |-> "none"]
NoCall == [query |-> <<>>, k |-> 0]

\* ---- the lines main reads
Whitespace == {" ", "\t"}
KeyboardInterrupt == <<"KeyboardInterrupt">>
EOFError == <<"EOFError">>

Lines == {
  <<>>,
  <<" ", "\t">>,
  <<"q", "u", "i", "t">>,
  <<"Q", "u", "I", "T">>,
  <<" ", "E", "x", "i", "t", " ">>,
  <<"Q", " ">>,
  <<"e", "g", "g", "s">>,
  <<" ", "q", " ", "x">>,
  <<"q", "u", "i", "t", "s">> }

QuitWords == { <<"q", "u", "i", "t">>, <<"e", "x", "i", "t">>, <<"q">> }

\* str.strip(): without its leading and trailing whitespace
RECURSIVE lstrip(_)
lstrip(s) == IF s # <<>> /\ Head(s) \in Whitespace THEN lstrip(Tail(s)) ELSE s

RECURSIVE rstrip(_)
rstrip(s) ==
  IF s # <<>> /\ s[Len(s)] \in Whitespace THEN rstrip(SubSeq(s, 1, Len(s) - 1)) ELSE s

strip(s) == rstrip(lstrip(s))

LowerChar(c) ==
  CASE c = "Q" -> "q" [] c = "U" -> "u" [] c = "I" -> "i" [] c = "T" -> "t"
    [] c = "E" -> "e" [] c = "X" -> "x" [] c = "G" -> "g" [] c = "S" -> "s"
    [] OTHER -> c

lower_missing(s) == s

\* str.lower()
lower(s) == [i \in 1..Len(s) |-> LowerChar(s[i])]

\* ---- the index (hnswlib)
\* lines 27-29: init_index, add_items(embeddings, arange(n)), set_ef(50). The
\* element of label l is row l of the embeddings. With at most M + 1 elements
\* every element is linked to every other on layer 0.
build_index(emb) ==
  [inited |-> TRUE, data |-> emb, M |-> M, ef_construction |-> EF_CONSTRUCTION,
   ef |-> EF, max_elements |-> Len(emb)]

\* line 30: what save_index writes (the graph with its vectors and labels, M,
\* ef_construction, max_elements; not ef)
saved_index(idx) ==
  [exists |-> TRUE, complete |-> TRUE, data |-> idx.data, M |-> idx.M,
   ef_construction |-> idx.ef_construction, max_elements |-> idx.max_elements]

\* line 24: load_index(path, max_elements=num_elements) of a complete file
load_index(file, num_elements) ==
  [inited |-> TRUE, data |-> file.data, M |-> file.M,
   ef_construction |-> file.ef_construction, ef |-> DEFAULT_EF,
   max_elements |-> IF num_elements < Len(file.data) THEN file.max_elements
                    ELSE num_elements]

\* the labels of ls in ascending order of (distance to q, label)
RECURSIVE SortByDistance(_, _, _)
SortByDistance(ls, data, q) ==
  IF ls = {} THEN <<>>
  ELSE LET best == CHOOSE l \in ls : \A o \in ls :
                     \/ distance(data[l + 1], q) < distance(data[o + 1], q)
                     \/ /\ distance(data[l + 1], q) = distance(data[o + 1], q)
                        /\ l <= o
       IN  <<best>> \o SortByDistance(ls \ {best}, data, q)

\* line 46: the possible results of index.knn_query(q, k). The search width
\* is max(ef, k) and the graph is complete, so the search sees every element
\* and keeps the k nearest; among elements at the same distance the ones
\* kept are the heap's choice; the result is ordered by (distance, label).
\* hnswlib raises a RuntimeError when it finds fewer than k elements.
knn_query(idx, q, k) ==
  LET n == Len(idx.data)
      labels == 0..(n - 1)
      d(l) == distance(idx.data[l + 1], q)
  IN  IF k > n
        THEN { [status |-> "RuntimeError"] }
        ELSE { [status |-> "ok",
                labels |-> SortByDistance(kept, idx.data, q),
                distances |-> [i \in 1..k |-> d(SortByDistance(kept, idx.data, q)[i])]]
               : kept \in { S \in SUBSET labels :
                              /\ Cardinality(S) = k
                              /\ \A a \in S, b \in labels \ S : d(a) <= d(b) } }

knn_query_sets_ef(idx, k) == [idx EXCEPT !.ef = k]

\* the index object after knn_query: the query reads the graph and ef
knn_query_self(idx, k) == idx

\* lines 51-63: the results printed for the pairs of zip(labels, distances),
\* up to the first pair whose recipes[idx] (IndexError) or recipe['title']
\* (KeyError) raises
RECURSIVE present(_, _, _)
present(labels, distances, recs) ==
  IF labels = <<>> THEN <<>>
  ELSE IF Head(labels) + 1 > Len(recs) \/ ~recs[Head(labels) + 1].hasTitle
         THEN <<>>
         ELSE <<[id |-> Head(labels), recipe |-> recs[Head(labels) + 1],
                 score |-> 1000 - Head(distances)]>>
              \o present(Tail(labels), Tail(distances), recs)

SearchIdle ==
  /\ pc = "off" /\ disk = Corpus(0, 1) /\ indexFile = NoIndexFile
  /\ recipes = <<>> /\ embeddings = <<>> /\ index = NoIndex /\ branch = "none"
  /\ line = <<>> /\ call = NoCall /\ calls = 0 /\ ret = NoRet /\ shown = <<>>
  /\ qerr = "none" /\ reads = 0 /\ runs = 0

SearchInit ==
  /\ pc = "idle" /\ disk \in Corpora /\ indexFile = NoIndexFile
  /\ recipes = <<>> /\ embeddings = <<>> /\ index = NoIndex /\ branch = "none"
  /\ line = <<>> /\ call = NoCall /\ calls = 0 /\ ret = NoRet /\ shown = <<>>
  /\ qerr = "none" /\ reads = 0 /\ runs = 0

\* between two runs the recipes and their embeddings are generated again
\* from another recipe list; nothing removes recipe_index.bin
change_corpus ==
  /\ pc = "idle"
  /\ runs \in 1..(MaxRuns - 1)
  /\ \E c \in Corpora \ {disk} : disk' = c
  /\ UNCHANGED <<pc, indexFile, recipes, embeddings, index, branch, line, call,
                 calls, ret, shown, qerr, reads, runs, cvars, gvars>>

\* main, lines 66-76
start_run ==
  /\ pc = "idle"
  /\ runs < MaxRuns
  /\ runs' = runs + 1
  /\ recipes' = disk.recipes
  /\ embeddings' = disk.embeddings
  /\ pc' = "loaded"
  /\ UNCHANGED <<disk, indexFile, index, branch, line, call, calls, ret, shown,
                 qerr, reads, cvars, gvars>>

\* load_or_build_index, lines 22-24, then lines 83-90. Loading a file that a
\* save left incomplete raises inside hnswlib.
load_branch ==
  /\ pc = "loaded"
  /\ indexFile.exists
  /\ branch' = "load"
  /\ IF indexFile.complete
       THEN /\ index' = load_index(indexFile, Len(embeddings))
            /\ pc' = "loop"
       ELSE /\ index' = index
            /\ pc' = "crashed"
  /\ UNCHANGED <<disk, indexFile, recipes, embeddings, line, call, calls, ret,
                 shown, qerr, reads, runs, cvars, gvars>>

\* load_or_build_index, lines 25-30 up to the point where save_index has
\* opened recipe_index.bin for writing
build_branch ==
  /\ pc = "loaded"
  /\ ~indexFile.exists
  /\ branch' = "build"
  /\ index' = build_index(embeddings)
  /\ indexFile' = [exists |-> TRUE, complete |-> FALSE]
  /\ pc' = "saving"
  /\ UNCHANGED <<disk, recipes, embeddings, line, call, calls, ret, shown, qerr,
                 reads, runs, cvars, gvars>>

\* save_index has written the whole file; lines 31-33 and 83-90
save_done ==
  /\ pc = "saving"
  /\ indexFile' = saved_index(index)
  /\ pc' = "loop"
  /\ UNCHANGED <<disk, recipes, embeddings, index, branch, line, call, calls, ret,
                 shown, qerr, reads, runs, cvars, gvars>>

\* the write fails or the process is interrupted inside save_index: line 30
\* is outside every try block, the file stays as far as it was written
save_fail ==
  /\ pc = "saving"
  /\ pc' = "crashed"
  /\ UNCHANGED <<disk, indexFile, recipes, embeddings, index, branch, line, call,
                 calls, ret, shown, qerr, reads, runs, cvars, gvars>>

\* search(query, index, recipes, model, tokenizer), lines 43-63, with e what
\* embed_query does and r what knn_query does
search(query, e, r) ==
  /\ call' = [query |-> query, k |-> K]
  /\ calls' = calls + 1
  /\ index' = knn_query_self(index, K)
  /\ IF ~e.ok
       THEN /\ ret' = NoRet /\ shown' = <<>> /\ qerr' = "embed" /\ pc' = "crashed"
       ELSE /\ ret' = r
            /\ IF r.status # "ok"
                 THEN /\ shown' = <<>> /\ qerr' = "index" /\ pc' = "crashed"
                 ELSE /\ shown' = present(r.labels, r.distances, recipes)
                      /\ IF Len(shown') < Len(r.labels)
                           THEN qerr' = "metadata" /\ pc' = "crashed"
                           ELSE qerr' = "none" /\ pc' = "loop"

\* one pass of the while loop of main, lines 92-99, for the line l
read_line ==
  /\ pc = "loop"
  /\ reads < MaxReads
  /\ reads' = reads + 1
  /\ \E l \in Lines :
       /\ line' = l
       /\ LET query == strip(l) IN
            IF lower(query) \in QuitWords
              THEN /\ pc' = "goodbye"
                   /\ UNCHANGED <<index, call, calls, ret, shown, qerr>>
            ELSE IF query = <<>>
              THEN UNCHANGED <<pc, index, call, calls, ret, shown, qerr>>
            ELSE \E e \in embed_query :
                   \E r \in (IF e.ok THEN knn_query(index, e.vector, K) ELSE {NoRet}) :
                     search(query, e, r)
  /\ UNCHANGED <<disk, indexFile, recipes, embeddings, branch, runs, cvars, gvars>>

\* lines 100-101: a KeyboardInterrupt inside the try block ends the loop
keyboard_interrupt ==
  /\ pc = "loop"
  /\ reads < MaxReads
  /\ reads' = reads + 1
  /\ line' = KeyboardInterrupt
  /\ pc' = "goodbye"
  /\ UNCHANGED <<disk, indexFile, recipes, embeddings, index, branch, call, calls,
                 ret, shown, qerr, runs, cvars, gvars>>

\* input() raises EOFError at the end of the input: only KeyboardInterrupt
\* is caught
end_of_input ==
  /\ pc = "loop"
  /\ reads < MaxReads
  /\ reads' = reads + 1
  /\ line' = EOFError
  /\ pc' = "crashed"
  /\ UNCHANGED <<disk, indexFile, recipes, embeddings, index, branch, call, calls,
                 ret, shown, qerr, runs, cvars, gvars>>

\* the process has ended (line 103, or a traceback): its objects are gone,
\* the files stay
exit_run ==
  /\ pc \in {"goodbye", "crashed"}
  /\ pc' = "idle"
  /\ recipes' = <<>> /\ embeddings' = <<>> /\ index' = NoIndex /\ branch' = "none"
  /\ line' = <<>> /\ call' = NoCall /\ calls' = 0 /\ ret' = NoRet /\ shown' = <<>>
  /\ qerr' = "none" /\ reads' = 0
  /\ UNCHANGED <<disk, indexFile, runs, cvars, gvars>>

Next ==
  \/ change_corpus \/ start_run \/ load_branch \/ build_branch \/ save_done
  \/ save_fail \/ read_line \/ keyboard_interrupt \/ end_of_input \/ exit_run

Init == SearchInit /\ ConvertIdle /\ GenIdle
Spec == Init /\ [][Next]_vars

InitConvert == ConvertInit /\ GenIdle /\ SearchIdle
SpecConvert == InitConvert /\ [][ConvertNext]_vars

InitGen == GenInit /\ ConvertIdle /\ SearchIdle
SpecGen == InitGen /\ [][GenNext]_vars

(***************************************************************************)
(* The claims                                                              *)
(***************************************************************************)

\* ---- C3, under SpecConvert

\* the little-endian 32-bit number at byte offset off (from 0) of b
DecodeLE(b, off) ==
  b[off + 1] + 256 * b[off + 2] + 65536 * b[off + 3] + 16777216 * b[off + 4]

\* C3: for every N x D matrix the written artifact has exactly 8 + N*D*4
\* bytes, the little-endian int32 N at offset 0 and D at offset 4, and the
\* float32 component j of vector i at offset 8 + (i*D + j)*4 (row-major,
\* vector order = id order).
C3_ArtifactLayout ==
  cvPc = "done" =>
    LET N == npzFile.count
        D == npzFile.dim
        b == binFile.bytes
    IN  /\ binFile.exists
        /\ Len(b) = 8 + N * D * 4
        /\ \A p \in 1..Len(b) : b[p] \in 0..255
        /\ DecodeLE(b, 0) = N
        /\ DecodeLE(b, 4) = D
        /\ \A i \in 0..(N - 1), j \in 0..(D - 1) :
             DecodeLE(b, 8 + (i * D + j) * 4) = npzFile.rows[i + 1][j + 1]

C3_Witness ==
  /\ cvPc = "done"
  /\ npzFile.count = 2 /\ npzFile.dim = 2
  /\ npzFile.rows[1][2] # npzFile.rows[2][1]
  /\ binBefore.exists

\* ---- C2, under SpecConvert

\* C2: a write of the artifact that fails or is interrupted partway leaves
\* at the final path either what was there before (no file, or the previous
\* complete artifact) or the new complete artifact, never a truncated file.
C2_FailedWriteLeavesNoPartialFile ==
  cvPc = "failed" =>
    \/ binFile = binBefore
    \/ binFile.exists /\ binFile.bytes = BinArtifact(npzFile)

\* ---- C9, under SpecGen

\* C9: for a recipe list of length N >= 1 the batched loop saves exactly N
\* embedding rows and N recipe ids; row i is the embedding of the first 2000
\* characters of the search text of recipe i, and recipe_ids[i] is that
\* recipe's id, or the string of i when it has none.
C9_RowsFollowRecipes ==
  gPc = "done" =>
    LET N == Len(gRecipes) IN
      /\ gNpz.exists
      /\ Len(gNpz.embeddings) = N
      /\ Len(gNpz.recipe_ids) = N
      /\ \A i \in 1..N :
           LET full == create_search_text(gRecipes[i]) IN
             /\ full.of.recipe = gRecipes[i].key
             /\ gNpz.embeddings[i] =
                  embed([of |-> full.of,
                         len |-> IF full.len > 2000 THEN 2000 ELSE full.len])
             /\ gNpz.recipe_ids[i] =
                  IF gRecipes[i].hasId THEN [id_of |-> gRecipes[i].key]
                  ELSE [str |-> i - 1]

C9_Witness ==
  /\ gPc = "done"
  /\ Len(gRecipes) = BATCH_SIZE + 1
  /\ \E i \in 1..Len(texts) : texts[i].len > TEXT_LIMIT
  /\ \E i \in 1..Len(gRecipes) : ~gRecipes[i].hasId

\* ---- C1, under Spec

\* what decides the result of a query: the graph (here its vectors, in label
\* order), M and the query-time ef
SearchParams(idx) == <<idx.data, idx.M, idx.ef>>

\* C1: the index restored by the load branch answers every query as the
\* index that was built and saved does: same results, and the same value of
\* every parameter that affects search results, ef included.
C1_LoadedIndexSearchesLikeBuilt ==
  (pc = "loop" /\ branch = "load") =>
    LET built == build_index(indexFile.data) IN
      /\ \A q \in QueryVectors : knn_query(index, q, K) = knn_query(built, q, K)
      /\ SearchParams(index) = SearchParams(built)

\* ---- C4, under Spec

\* C4: a search over N > 0 vectors with k >= 1 succeeds and returns exactly
\* min(k, N) results, also when k > N.
C4_SearchReturnsMinKN ==
  ret.status # "none" =>
    /\ ret.status = "ok"
    /\ Len(ret.labels) = Min(call.k, Len(index.data))
    /\ Len(ret.labels) <= call.k

\* ---- C5, under Spec

\* C5: a failure inside a text query is a value of that query and does not
\* end the process: after it the loop still accepts the next query.
C5_QueryFailureIsSurfaced == qerr # "none" => pc = "loop"

\* ---- C7, under Spec

\* C7: for every (id, distance) pair the index query returned, one result is
\* presented, in the order returned, joining the metadata of that id with
\* the score 1 - distance; the scores are non-increasing.
C7_EveryPairPresented ==
  ret.status = "ok" =>
    /\ Len(shown) = Len(ret.labels)
    /\ \A i \in 1..Len(shown) :
         /\ shown[i].id = ret.labels[i]
         /\ shown[i].recipe = recipes[ret.labels[i] + 1]
         /\ shown[i].score = 1000 - ret.distances[i]
    /\ \A i \in 1..(Len(shown) - 1) : shown[i].score >= shown[i + 1].score

\* ---- C8, under Spec

\* C8: in every run the index that answers the queries was built from the
\* embeddings currently loaded, and every id a query returns is a row of them.
C8_IndexMatchesCurrentCorpus ==
  /\ pc = "loop" => index.data = embeddings
  /\ ret.status = "ok" => \A i \in 1..Len(ret.labels) : ret.labels[i] < Len(embeddings)

\* ---- C6, under Spec

\* C6: once load_or_build_index has returned no query changes the index
\* (graph, entry point, M, ef) or the index file; the index file is written
\* only by the build branch of load_or_build_index, and the index object is
\* set up only inside load_or_build_index.
C6_QueriesLeaveIndexAlone ==
  [][ /\ pc = "loop" => (index' = index /\ indexFile' = indexFile)
      /\ indexFile' # indexFile => (pc \in {"loaded", "saving"} /\ branch' = "build")
      /\ (index' # index /\ index'.inited) => pc = "loaded" ]_vars

C6_Witness ==
  /\ pc = "loop" /\ calls = 2 /\ ret.status = "ok" /\ qerr = "none"
  /\ branch = "load"

\* ---- C10, under Spec

\* l without its leading and trailing whitespace: from its first character
\* that is not whitespace to its last one
Trimmed(l) ==
  LET solid == { i \in 1..Len(l) : l[i] \notin Whitespace } IN
    IF solid = {} THEN <<>>
    ELSE SubSeq(l, CHOOSE i \in solid : \A j \in solid : i <= j,
                   CHOOSE i \in solid : \A j \in solid : i >= j)

UpperOf(c) ==
  CASE c = "q" -> "Q" [] c = "u" -> "U" [] c = "i" -> "I" [] c = "t" -> "T"
    [] c = "e" -> "E" [] c = "x" -> "X" [] OTHER -> c

\* q is 'quit', 'exit' or 'q' in some letter case
IsQuitWord(q) ==
  \E w \in QuitWords :
    /\ Len(q) = Len(w)
    /\ \A i \in 1..Len(w) : q[i] = w[i] \/ q[i] = UpperOf(w[i])

\* C10: in the loop, a line that is empty after trimming issues no query and
\* the loop goes on; a quit word in any letter case ends the loop with no
\* query; every other line issues exactly one call of search with the trimmed
\* line and k = 5 before the next line is read; no step of the loop builds,
\* saves or loads anything; a quit word or a keyboard interrupt ends the loop
\* at the goodbye.
C10_DriverLoop ==
  [][ pc = "loop" =>
        /\ index' = index /\ indexFile' = indexFile
        /\ embeddings' = embeddings /\ recipes' = recipes
        /\ reads' = reads + 1
        /\ line' = KeyboardInterrupt => (pc' = "goodbye" /\ calls' = calls)
        /\ line' \in Lines =>
             LET q == Trimmed(line') IN
               /\ q = <<>> => (pc' = "loop" /\ calls' = calls /\ call' = call)
               /\ IsQuitWord(q) => (pc' = "goodbye" /\ calls' = calls /\ call' = call)
               /\ (q # <<>> /\ ~IsQuitWord(q)) =>
                    (calls' = calls + 1 /\ call' = [query |-> q, k |-> 5]
                     /\ pc' # "goodbye") ]_vars

C10_Witness ==
  /\ pc = "goodbye" /\ calls = 1 /\ reads = 2
  /\ line = <<"Q", "u", "I", "T">>
  /\ call = [query |-> <<"q", " ", "x">>, k |-> 5]

====
